---- MODULE Spec2Model ----
(***************************************************************************)
(* Tokyo_Rainfall_API.py: the single-slot weather cache (WEATHER_CACHE),   *)
(* the five fetchers that read through it, update_cache and the dashboard  *)
(* handler rainfall_formatted, run by concurrent worker threads against a  *)
(* wall clock.                                                             *)
(*                                                                         *)
(* Numbers that are floats in the program and are only displayed (temp,    *)
(* humidity, wind speed, pollutant concentrations) are strings here;       *)
(* rainfall amounts, which the code compares with 0, are integers (tenths  *)
(* of a millimetre).  A dt_txt string "YYYY-MM-DD HH:MM:SS" is the pair    *)
(* [day, sec]: days since 1970-01-01 and seconds into that UTC day.        *)
(***************************************************************************)
EXTENDS Integers, Sequences, FiniteSets, TLC

\* ------------------------------------------------------------------ bounds
\* Requests served in one behaviour.
MaxRequests == 2
\* Upstream calls that fail for a transient reason in one behaviour.
MaxFaults == 2
\* Longest data['list'] handed to a single call of get_rainfall_data.
MaxListLen == 5
\* Longest data['list'] handed to a single call of get_5day_forecast: enough
\* for more than five calendar dates.
MaxEntries == 12
\* Largest argument of a single call of wind_direction.
MaxDegrees == 720

\* --------------------------------------------------------------- constants
CACHE_DURATION == 3600
\* rainfall_forecast[:4]
RAIN_FORECAST_CAP == 4
\* list(daily_data.values())[:5]
FORECAST_DAYS_CAP == 5
\* Asia/Tokyo is UTC+9 all year.
TOKYO_OFFSET == 32400
DAY_SECONDS == 86400

\* The worker threads of the server's thread pool (the handler is a plain
\* def, so each request runs on one of them).
Procs == {1, 2}

\* The keys of the dict update_cache stores, in the order it fetches them.
Kinds == <<"rainfall_data", "current_weather", "five_day_forecast",
           "air_quality", "sun_moon">>
KindSet == {Kinds[i] : i \in 1..Len(Kinds)}

\* The upstream endpoint each fetcher's URL names.
Endpoints == {"forecast", "weather", "air_pollution"}
EndpointOf(k) ==
    CASE k = "rainfall_data"     -> "forecast"
      [] k = "current_weather"   -> "weather"
      [] k = "five_day_forecast" -> "forecast"
      [] k = "air_quality"       -> "air_pollution"
      [] k = "sun_moon"          -> "weather"

\* What one requests.get(...).json() can do: return the documented body,
\* raise in requests.get (network error, timeout), raise in .json()
\* (malformed JSON), or return a JSON body without the fields read (such as
\* the provider's {"cod": 401, "message": ...} for a missing API key).
Outcomes == {"ok", "network_error", "malformed_json", "missing_field"}

\* ------------------------------------------------------- calendar helpers
\* Civil date (proleptic Gregorian) of a day number, as datetime computes it.
CivilFromDays(z) ==
    LET z1  == z + 719468
        era == z1 \div 146097
        doe == z1 % 146097
        yoe == (doe - doe \div 1460 + doe \div 36524 - doe \div 146096) \div 365
        doy == doe - (365 * yoe + yoe \div 4 - yoe \div 100)
        mp  == (5 * doy + 2) \div 153
        d   == doy - (153 * mp + 2) \div 5 + 1
        m   == IF mp < 10 THEN mp + 3 ELSE mp - 9
        y   == yoe + era * 400 + (IF m <= 2 THEN 1 ELSE 0)
    IN  [year |-> y, month |-> m, day |-> d]

\* 1970-01-01 was a Thursday; %a with Monday = 0.
Weekday(z) == (z + 3) % 7

\* datetime.strptime(item['dt_txt'], ...) localized to UTC: the instant.
Instant(dt_txt) == dt_txt.day * DAY_SECONDS + dt_txt.sec

\* astimezone(tokyo_tz).strftime('%Y-%m-%d %H:%M:%S JST%z'): the Tokyo wall
\* time of an instant.
TokyoStamp(t) ==
    LET local == t + TOKYO_OFFSET
    IN  [date |-> CivilFromDays(local \div DAY_SECONDS),
         sec  |-> local % DAY_SECONDS,
         zone |-> "JST+0900"]

\* strftime("%H:%M") of an instant in Tokyo.
TokyoHourMinute(t) ==
    LET s == (t + TOKYO_OFFSET) % DAY_SECONDS
    IN  <<s \div 3600, (s % 3600) \div 60>>

\* datetime.strptime(date, "%Y-%m-%d").strftime("%a, %b %d")
DateLabel(day) ==
    LET c == CivilFromDays(day)
    IN  [weekday |-> Weekday(day), month |-> c.month, day |-> c.day]

\* str.capitalize() on the descriptions the provider sends.
Capitalize(s) ==
    CASE s = "scattered clouds" -> "Scattered clouds"
      [] s = "light rain"       -> "Light rain"
      [] s = "clear sky"        -> "Clear sky"
      [] OTHER                  -> s

\* ------------------------------------------------------ upstream responses
\* A well-formed body of each endpoint.  The forecast entries lie in 2024,
\* after every clock value of the model.
ForecastJson ==
    [list |-> <<
        [dt_txt  |-> [day |-> 20031, sec |-> 43200],
         main    |-> [temp |-> "17.2"],
         weather |-> <<[description |-> "light rain", icon |-> "10d"]>>,
         rain    |-> [h3 |-> 12]],
        [dt_txt  |-> [day |-> 20031, sec |-> 54000],
         main    |-> [temp |-> "16.0"],
         weather |-> <<[description |-> "scattered clouds", icon |-> "03n"]>>],
        [dt_txt  |-> [day |-> 20032, sec |-> 0],
         main    |-> [temp |-> "14.9"],
         weather |-> <<[description |-> "light rain", icon |-> "10n"]>>,
         rain    |-> [h3 |-> 4]] >>]

WeatherJson ==
    [main    |-> [temp |-> "18.4", humidity |-> "62"],
     wind    |-> [speed |-> "3.6", deg |-> 90],
     weather |-> <<[main |-> "Clouds", description |-> "scattered clouds",
                    icon |-> "03d"]>>,
     sys     |-> [sunrise |-> 1730667900, sunset |-> 1730706240]]

AirPollutionJson ==
    [list |-> <<[main |-> [aqi |-> 3],
                 components |-> {<<"co", "201.9">>, <<"pm2_5", "8.1">>}]>>]

\* The body the provider sends with an error status.
ErrorJson == [cod |-> 401, message |-> "Invalid API key"]

\* --------------------------------------------------- results of a call
Return(v) == [kind |-> "return", val |-> v]
Raise(e)  == [kind |-> "raise", val |-> e]

\* response = requests.get(url, timeout=10); data = response.json()
HttpGetJson(endpoint, o) ==
    CASE o = "network_error"  -> Raise("RequestException")
      [] o = "malformed_json" -> Raise("JSONDecodeError")
      [] o = "missing_field"  -> Return(ErrorJson)
      [] o = "ok" ->
            Return(CASE endpoint = "forecast"      -> ForecastJson
                     [] endpoint = "weather"       -> WeatherJson
                     [] endpoint = "air_pollution" -> AirPollutionJson)

\* d[key] on every key of a path: TRUE iff no KeyError.
HasKeys(d, keys) == keys \subseteq DOMAIN d

Min(a, b) == IF a < b THEN a ELSE b
\* s[:n]
Take(s, n) == SubSeq(s, 1, Min(n, Len(s)))

\* ------------------------------------------------ get_rainfall_data (fresh)
\* item.get('rain', {}).get('3h', 0.0)
Rain3h(item) ==
    IF "rain" \in DOMAIN item /\ "h3" \in DOMAIN item.rain THEN item.rain.h3 ELSE 0

\* A variant that also keeps an entry whose time equals now; C11 tells it
\* from RainfallForecast.
RainfallForecast_inclusive(list, t) ==
    LET Keep(item) == Instant(item.dt_txt) >= t /\ Rain3h(item) > 0
        kept == SelectSeq(list, Keep)
    IN  [i \in 1..Len(kept) |->
            [timestamp      |-> TokyoStamp(Instant(kept[i].dt_txt)),
             rainfall_3h_mm |-> Rain3h(kept[i])]]

\* The loop over data['list']: entries after now with rain > 0, in order.
RainfallForecast(list, t) ==
    LET Keep(item) == Instant(item.dt_txt) > t /\ Rain3h(item) > 0
        kept == SelectSeq(list, Keep)
    IN  [i \in 1..Len(kept) |->
            [timestamp      |-> TokyoStamp(Instant(kept[i].dt_txt)),
             rainfall_3h_mm |-> Rain3h(kept[i])]]

\* A variant that reads the last entry of the list; C16 tells it from
\* CurrentRainfall.
CurrentRainfall_last(list) == IF Len(list) > 0 THEN Rain3h(list[Len(list)]) ELSE 0

\* if data['list']: current_rainfall = data['list'][0].get('rain', {}).get('3h', 0.0)
CurrentRainfall(list) == IF Len(list) > 0 THEN Rain3h(list[1]) ELSE 0

rainfall_fallback(t) ==
    [current_rainfall_last_hour_mm |-> 0,
     current_timestamp             |-> TokyoStamp(t),
     forecast                      |-> <<>>]

\* The try block from the parsed body on; t is datetime.now(tokyo_tz).
rainfall_build(data, t) ==
    IF ~HasKeys(data, {"list"}) THEN Raise("KeyError")
    ELSE IF \E i \in 1..Len(data.list) : ~HasKeys(data.list[i], {"dt_txt"})
         THEN Raise("KeyError")
    ELSE Return([current_rainfall_last_hour_mm |-> CurrentRainfall(data.list),
                 current_timestamp |-> TokyoStamp(t),
                 forecast |-> Take(RainfallForecast(data.list, t),
                                   RAIN_FORECAST_CAP)])

\* The try block after the cache check.
rainfall_fresh(o, t) ==
    LET r == HttpGetJson("forecast", o)
    IN  IF r.kind = "raise" THEN r ELSE rainfall_build(r.val, t)

\* ---------------------------------------------- get_current_weather (fresh)
current_weather_fallback ==
    [temp |-> "N/A", humidity |-> "N/A", wind_speed |-> "N/A", wind_deg |-> 0,
     weather |-> "Unknown", description |-> "Weather unavailable", icon |-> "01d"]

current_weather_build(data) ==
    IF ~HasKeys(data, {"main", "wind", "weather"}) THEN Raise("KeyError")
    ELSE IF ~HasKeys(data.main, {"temp", "humidity"})
            \/ ~HasKeys(data.wind, {"speed"})
         THEN Raise("KeyError")
    ELSE IF Len(data.weather) = 0 THEN Raise("IndexError")
    ELSE IF ~HasKeys(data.weather[1], {"main", "description", "icon"})
         THEN Raise("KeyError")
    ELSE Return(
            [temp        |-> data.main.temp,
             humidity    |-> data.main.humidity,
             wind_speed  |-> data.wind.speed,
             wind_deg    |-> IF "deg" \in DOMAIN data.wind
                             THEN data.wind.deg ELSE 0,
             weather     |-> data.weather[1].main,
             description |-> Capitalize(data.weather[1].description),
             icon        |-> data.weather[1].icon])

current_weather_fresh(o) ==
    LET r == HttpGetJson("weather", o)
    IN  IF r.kind = "raise" THEN r ELSE current_weather_build(r.val)

\* ------------------------------------------------ get_5day_forecast (fresh)
\* One pass of the loop from entry i on: dates holds the keys of daily_data
\* in insertion order, out its values.
RECURSIVE DailyScan(_, _, _, _)
DailyScan(list, i, dates, out) ==
    IF i > Len(list) THEN Return(out)
    ELSE LET item == list[i]
         IN  IF ~HasKeys(item, {"dt_txt"}) THEN Raise("KeyError")
             ELSE IF \E j \in 1..Len(dates) : dates[j] = item.dt_txt.day
                  THEN DailyScan(list, i + 1, dates, out)
             ELSE IF ~HasKeys(item, {"main", "weather"}) THEN Raise("KeyError")
             ELSE IF ~HasKeys(item.main, {"temp"}) THEN Raise("KeyError")
             ELSE IF Len(item.weather) = 0 THEN Raise("IndexError")
             ELSE IF ~HasKeys(item.weather[1], {"description", "icon"})
                  THEN Raise("KeyError")
             ELSE DailyScan(list, i + 1, Append(dates, item.dt_txt.day),
                    Append(out,
                       [temp        |-> item.main.temp,
                        description |-> Capitalize(item.weather[1].description),
                        icon        |-> item.weather[1].icon,
                        date        |-> DateLabel(item.dt_txt.day)]))

five_day_fallback == <<>>

\* A variant that requires every entry to be complete, also those of a date
\* already seen; C22 tells it from five_day_build.
five_day_build_strict(data) ==
    IF ~HasKeys(data, {"list"}) THEN Raise("KeyError")
    ELSE IF \E i \in 1..Len(data.list) :
                DailyScan(<<data.list[i]>>, 1, <<>>, <<>>).kind = "raise"
         THEN Raise("KeyError")
    ELSE LET scan == DailyScan(data.list, 1, <<>>, <<>>)
         IN  IF scan.kind = "raise" THEN scan
             ELSE Return(Take(scan.val, FORECAST_DAYS_CAP))

\* A variant that returns every date found, without the [:5]; C12 tells it
\* from five_day_build.
five_day_build_uncapped(data) ==
    IF ~HasKeys(data, {"list"}) THEN Raise("KeyError")
    ELSE DailyScan(data.list, 1, <<>>, <<>>)

five_day_build(data) ==
    IF ~HasKeys(data, {"list"}) THEN Raise("KeyError")
    ELSE LET scan == DailyScan(data.list, 1, <<>>, <<>>)
         IN  IF scan.kind = "raise" THEN scan
             ELSE Return(Take(scan.val, FORECAST_DAYS_CAP))

five_day_fresh(o) ==
    LET r == HttpGetJson("forecast", o)
    IN  IF r.kind = "raise" THEN r ELSE five_day_build(r.val)

\* -------------------------------------------------- get_air_quality (fresh)
\* A variant whose table is keyed 0..4; C15 tells it from AqiLevel.
AqiLevel_zero_based(aqi) ==
    CASE aqi = 0 -> <<"Good", "Air quality is satisfactory.", "#4CAF50">>
      [] aqi = 1 -> <<"Fair", "Moderate quality.", "#8BC34A">>
      [] aqi = 2 -> <<"Moderate", "Sensitive groups affected.", "#FFC107">>
      [] aqi = 3 -> <<"Poor", "Unhealthy for some.", "#FF9800">>
      [] aqi = 4 -> <<"Very Poor", "Health alert.", "#F44336">>
      [] OTHER   -> <<"Unknown", "No data", "#9E9E9E">>

\* levels.get(aqi, ("Unknown", "No data", "#9E9E9E"))
AqiLevel(aqi) ==
    CASE aqi = 1 -> <<"Good", "Air quality is satisfactory.", "#4CAF50">>
      [] aqi = 2 -> <<"Fair", "Moderate quality.", "#8BC34A">>
      [] aqi = 3 -> <<"Moderate", "Sensitive groups affected.", "#FFC107">>
      [] aqi = 4 -> <<"Poor", "Unhealthy for some.", "#FF9800">>
      [] aqi = 5 -> <<"Very Poor", "Health alert.", "#F44336">>
      [] OTHER   -> <<"Unknown", "No data", "#9E9E9E">>

air_quality_fallback ==
    [aqi |-> 0, level |-> "Unknown", advice |-> "No air quality data",
     color |-> "#9E9E9E", components |-> {}]

air_quality_build(data) ==
    IF ~HasKeys(data, {"list"}) THEN Raise("KeyError")
    ELSE IF Len(data.list) = 0 THEN Raise("IndexError")
    ELSE LET first == data.list[1]
         IN  IF ~HasKeys(first, {"main", "components"}) THEN Raise("KeyError")
             ELSE IF ~HasKeys(first.main, {"aqi"}) THEN Raise("KeyError")
             ELSE Return([aqi        |-> first.main.aqi,
                          level      |-> AqiLevel(first.main.aqi)[1],
                          advice     |-> AqiLevel(first.main.aqi)[2],
                          color      |-> AqiLevel(first.main.aqi)[3],
                          components |-> first.components])

air_quality_fresh(o) ==
    LET r == HttpGetJson("air_pollution", o)
    IN  IF r.kind = "raise" THEN r ELSE air_quality_build(r.val)

\* ------------------------------------------------ get_sun_moon_data (fresh)
\* moon_phases, by name of the symbol.
MoonPhases == <<"new", "waxing_crescent", "first_quarter", "waxing_gibbous",
                "full", "waning_gibbous", "last_quarter", "waning_crescent">>

sun_moon_fallback == [sunrise |-> "N/A", sunset |-> "N/A", moon |-> "new"]

sun_moon_build(data) ==
    IF ~HasKeys(data, {"sys"}) THEN Raise("KeyError")
    ELSE IF ~HasKeys(data.sys, {"sunrise", "sunset"}) THEN Raise("KeyError")
    ELSE LET sunset_day ==
               CivilFromDays((data.sys.sunset + TOKYO_OFFSET) \div DAY_SECONDS).day
         IN  Return([sunrise |-> TokyoHourMinute(data.sys.sunrise),
                     sunset  |-> TokyoHourMinute(data.sys.sunset),
                     moon    |-> MoonPhases[(sunset_day % 8) + 1]])

sun_moon_fresh(o) ==
    LET r == HttpGetJson("weather", o)
    IN  IF r.kind = "raise" THEN r ELSE sun_moon_build(r.val)

\* ------------------------------------------------------------ the fetchers
\* The try block of fetcher k once the cache was found unusable.
FreshBody(k, o, t) ==
    CASE k = "rainfall_data"     -> rainfall_fresh(o, t)
      [] k = "current_weather"   -> current_weather_fresh(o)
      [] k = "five_day_forecast" -> five_day_fresh(o)
      [] k = "air_quality"       -> air_quality_fresh(o)
      [] k = "sun_moon"          -> sun_moon_fresh(o)

\* The same from the parsed body on, whatever the body is.
BuildBody(k, data, t) ==
    CASE k = "rainfall_data"     -> rainfall_build(data, t)
      [] k = "current_weather"   -> current_weather_build(data)
      [] k = "five_day_forecast" -> five_day_build(data)
      [] k = "air_quality"       -> air_quality_build(data)
      [] k = "sun_moon"          -> sun_moon_build(data)

\* The record fetcher k returns from its except block.
Fallback(k, t) ==
    CASE k = "rainfall_data"     -> rainfall_fallback(t)
      [] k = "current_weather"   -> current_weather_fallback
      [] k = "five_day_forecast" -> five_day_fallback
      [] k = "air_quality"       -> air_quality_fallback
      [] k = "sun_moon"          -> sun_moon_fallback

\* A variant whose except clause names requests.RequestException alone; C7
\* tells it from Catch.
Catch_RequestException(r, fallback) ==
    IF r.kind = "raise" /\ r.val = "RequestException" THEN Return(fallback) ELSE r

\* try: ... except Exception as e: return <fallback>
Catch(r, fallback) == IF r.kind = "raise" THEN Return(fallback) ELSE r

\* ------------------------------------------------------------------ cache
\* WEATHER_CACHE['data'] before the first update.
None == [tag |-> "None"]

\* A variant that leaves the last of the five keys out of the dict; C6 tells
\* it from Snapshot.
Snapshot_without_sun_moon(sid, fetched, t) ==
    [tag  |-> "dict",
     sid  |-> sid,
     recs |-> [k \in DOMAIN fetched \ {"sun_moon"} |-> fetched[k]],
     last_updated |-> TokyoStamp(t)]

\* The dict update_cache builds from its five locals; sid names the
\* update_cache invocation that built it (bookkeeping, not program state).
Snapshot(sid, fetched, t) ==
    [tag  |-> "dict",
     sid  |-> sid,
     recs |-> fetched,
     last_updated |-> TokyoStamp(t)]

\* A variant that still trusts a snapshot aged exactly CACHE_DURATION; C5
\* tells it from is_cache_valid.
is_cache_valid_inclusive(cache, current_time) ==
    cache.data # None /\ current_time - cache.timestamp <= CACHE_DURATION

is_cache_valid(cache, current_time) ==
    cache.data # None /\ current_time - cache.timestamp < CACHE_DURATION

get_from_cache(cache) == cache.data

\* if cached_data and '<key>' in cached_data
CacheHas(cached_data, k) == cached_data # None /\ k \in DOMAIN cached_data.recs

\* One call of fetcher k by `who` at time t, the upstream answering o if
\* asked.  The validity check, the cache read and the return are one step:
\* each reads the shared dict once and a later read can only see what a
\* check made at that later moment would see.  The record carries who
\* fetched it and whether the upstream call failed.
Fetcher(k, cache, t, o, who) ==
    IF is_cache_valid(cache, t) /\ CacheHas(get_from_cache(cache), k)
    THEN [kind |-> "return", val |-> get_from_cache(cache).recs[k],
          from |-> get_from_cache(cache).sid, called |-> FALSE]
    ELSE LET r == Catch(FreshBody(k, o, t), Fallback(k, t))
         IN  [kind |-> r.kind,
              val  |-> [body |-> r.val, by |-> who, failed |-> o # "ok"],
              from |-> 0, called |-> TRUE]

\* directions[round((degrees % 360) / 45) % 8]
RoundHalfEven(n, d) ==
    LET q == n \div d
        r == n % d
    IN  IF 2 * r < d THEN q
        ELSE IF 2 * r > d THEN q + 1
        ELSE IF q % 2 = 0 THEN q ELSE q + 1

\* directions: each label is an arrow and a compass point ("↓ N" is
\* [arrow |-> "down", point |-> "N"]).
Directions ==
    << [arrow |-> "down",       point |-> "N"],
       [arrow |-> "down-left",  point |-> "NE"],
       [arrow |-> "left",       point |-> "E"],
       [arrow |-> "up-left",    point |-> "SE"],
       [arrow |-> "up",         point |-> "S"],
       [arrow |-> "up-right",   point |-> "SW"],
       [arrow |-> "right",      point |-> "W"],
       [arrow |-> "down-right", point |-> "NW"] >>

\* A variant that truncates the quotient instead of rounding it; C13 tells it
\* from wind_direction.
wind_direction_truncating(degrees) ==
    LET i == ((degrees % 360) \div 45) % 8
    IN  IF i + 1 \in DOMAIN Directions THEN Return(Directions[i + 1])
        ELSE Raise("IndexError")

\* A variant that clamps the index to the table instead of wrapping it; C14
\* tells it from wind_direction.
wind_direction_clamping(degrees) ==
    LET i == Min(RoundHalfEven(degrees % 360, 45), 7)
    IN  IF i + 1 \in DOMAIN Directions THEN Return(Directions[i + 1])
        ELSE Raise("IndexError")

wind_direction(degrees) ==
    LET i == RoundHalfEven(degrees % 360, 45) % 8
    IN  IF i + 1 \in DOMAIN Directions THEN Return(Directions[i + 1])
        ELSE Raise("IndexError")

\* ------------------------------------------------------------------ state
VARIABLES
    API_KEY,        \* os.getenv("OPENWEATHER_API_KEY"): "set" or "None"
    threads,        \* how many worker threads the server runs handlers on
    WEATHER_CACHE,  \* [data, timestamp]
    now,            \* time.time()
    pc,             \* where each worker is in rainfall_formatted
    idx,            \* which of the five fetcher calls comes next
    req,            \* the request the worker serves (0: none)
    fetched,        \* update_cache's locals: kind -> record, as far as fetched
    got,            \* the handler's locals: kind -> [rec, from]
    started,        \* per worker: the clock, is_cache_valid() and the snapshot
                    \* in the cache when its request arrived
    calls,          \* per worker: upstream calls of its request, per endpoint
    solo,           \* per worker: no other request ran during its request
    nreq,           \* requests arrived so far
    faults,         \* upstream calls that failed so far
    input,          \* a single call of one function: the function and its
                    \* arguments (NoInput while the server runs)
    output          \* what that call returned

vars == <<API_KEY, threads, WEATHER_CACHE, now, pc, idx, req, fetched, got, started,
          calls, solo, nreq, faults, input, output>>

Requests == 1..MaxRequests

\* time.time() is a Unix time, far above CACHE_DURATION: the model starts
\* the clock at the smallest such reading.
StartTime == CACHE_DURATION

\* The clock readings the model takes: the start, the last second at which a
\* cache stamped at the start is valid, and the second it expires.
ClockPoints == {StartTime, StartTime + CACHE_DURATION - 1, StartTime + CACHE_DURATION}

Empty == [k \in {} |-> None]
NotStarted == [at |-> 0, valid |-> FALSE, sid |-> 0]
NoCalls == [e \in Endpoints |-> 0]
NoInput == [fn |-> "none"]
NoOutput == [tag |-> "none"]

Init ==
    /\ API_KEY \in {"set", "None"}
    /\ threads \in Procs
    /\ faults = 0
    /\ WEATHER_CACHE = [data |-> None, timestamp |-> 0]
    /\ now = StartTime
    /\ pc = [p \in Procs |-> "idle"]
    /\ idx = [p \in Procs |-> 0]
    /\ req = [p \in Procs |-> 0]
    /\ fetched = [p \in Procs |-> Empty]
    /\ got = [p \in Procs |-> Empty]
    /\ started = [p \in Procs |-> NotStarted]
    /\ calls = [p \in Procs |-> NoCalls]
    /\ solo = [p \in Procs |-> TRUE]
    /\ nreq = 0
    /\ input = NoInput
    /\ output = NoOutput

\* What the provider can answer to the next call: without an API key always
\* the 401 body; with one, the documented body.  Transient failures (up to
\* MaxFaults of them) are explored where requests are served one at a time;
\* failures under concurrency are those of the missing key.
Answers ==
    IF API_KEY = "None" THEN {"missing_field"}
    ELSE IF threads = 1 /\ faults < MaxFaults THEN Outcomes
    ELSE {"ok"}

CountFault(called, o) ==
    IF called /\ o # "ok" /\ API_KEY # "None" THEN faults + 1 ELSE faults

\* ---------------------------------------------------------------- actions
\* The clock moves forward.
Tick ==
    /\ \E t \in ClockPoints : t > now /\ now' = t
    /\ UNCHANGED <<input, output, API_KEY, threads, WEATHER_CACHE, pc, idx, req, fetched, got,
                   started, calls, solo, nreq, faults>>

\* A request for /rainfall/formatted is handed to worker p, the first idle
\* one (which thread serves a request makes no difference to the program).
Arrive(p) ==
    /\ pc[p] = "idle"
    /\ p <= threads
    /\ \A q \in Procs : q < p => pc[q] # "idle"
    /\ nreq < MaxRequests
    /\ nreq' = nreq + 1
    /\ req' = [req EXCEPT ![p] = nreq + 1]
    /\ pc' = [pc EXCEPT ![p] = "check"]
    /\ idx' = [idx EXCEPT ![p] = 0]
    /\ fetched' = [fetched EXCEPT ![p] = Empty]
    /\ got' = [got EXCEPT ![p] = Empty]
    /\ started' = [started EXCEPT ![p] =
                      [at     |-> now,
                       valid  |-> is_cache_valid(WEATHER_CACHE, now),
                       sid    |-> IF WEATHER_CACHE.data = None THEN 0
                                  ELSE WEATHER_CACHE.data.sid]]
    /\ calls' = [calls EXCEPT ![p] = NoCalls]
    /\ solo' = [q \in Procs |-> IF q = p THEN \A o \in Procs \ {p} : pc[o] = "idle"
                                ELSE IF pc[q] = "idle" THEN solo[q] ELSE FALSE]
    /\ UNCHANGED <<input, output, API_KEY, threads, WEATHER_CACHE, now, faults>>

\* A variant with the check and update_cache in a critical section: no
\* worker passes the check while another is inside update_cache.  C9 tells it
\* from HandlerCheck.
HandlerCheck_locked(p) ==
    /\ pc[p] = "check"
    /\ \A q \in Procs \ {p} : pc[q] \notin {"update", "store_data", "store_ts"}
    /\ pc' = [pc EXCEPT ![p] = IF ~is_cache_valid(WEATHER_CACHE, now)
                               THEN "update" ELSE "get"]
    /\ idx' = [idx EXCEPT ![p] = 1]
    /\ UNCHANGED <<input, output, API_KEY, threads, WEATHER_CACHE, now, req, fetched, got, started,
                   calls, solo, nreq, faults>>

\* if not is_cache_valid(): update_cache()
HandlerCheck(p) ==
    /\ pc[p] = "check"
    /\ pc' = [pc EXCEPT ![p] = IF ~is_cache_valid(WEATHER_CACHE, now)
                               THEN "update" ELSE "get"]
    /\ idx' = [idx EXCEPT ![p] = 1]
    /\ UNCHANGED <<input, output, API_KEY, threads, WEATHER_CACHE, now, req, fetched, got, started,
                   calls, solo, nreq, faults>>

CountCall(c, k, called) ==
    IF called THEN [c EXCEPT ![EndpointOf(k)] = @ + 1] ELSE c

\* A variant of update_cache that calls a fetcher again when it came back
\* with its fallback; C18 tells it from UpdateFetch.
UpdateFetch_retrying(p) ==
    /\ pc[p] = "update"
    /\ \E o \in Answers :
         LET k == Kinds[idx[p]] IN
         \E r \in {Fetcher(k, WEATHER_CACHE, now, o,
                           [req |-> req[p], via |-> "update_cache"])} :
             /\ calls' = [calls EXCEPT ![p] = CountCall(@, k, r.called)]
             /\ faults' = CountFault(r.called, o)
             /\ IF r.called /\ o # "ok"
                THEN UNCHANGED <<fetched, pc, idx>>
                ELSE /\ fetched' = [fetched EXCEPT ![p] = (k :> r.val) @@ @]
                     /\ pc' = [pc EXCEPT ![p] = IF idx[p] = Len(Kinds)
                                                THEN "store_data" ELSE "update"]
                     /\ idx' = [idx EXCEPT ![p] = IF idx[p] = Len(Kinds)
                                                  THEN 0 ELSE @ + 1]
    /\ UNCHANGED <<input, output, API_KEY, threads, WEATHER_CACHE, now, req, got,
                   started, solo, nreq>>

\* update_cache: the next of its five fetcher calls.  An exception leaving a
\* fetcher would end update_cache in its except block, nothing stored.
UpdateFetch(p) ==
    /\ pc[p] = "update"
    /\ \E o \in Answers :
         LET k == Kinds[idx[p]] IN
         \E r \in {Fetcher(k, WEATHER_CACHE, now, o,
                           [req |-> req[p], via |-> "update_cache"])} :
             /\ calls' = [calls EXCEPT ![p] = CountCall(@, k, r.called)]
             /\ faults' = CountFault(r.called, o)
             /\ IF r.kind = "raise"
                THEN /\ fetched' = [fetched EXCEPT ![p] = Empty]
                     /\ pc' = [pc EXCEPT ![p] = "get"]
                     /\ idx' = [idx EXCEPT ![p] = 1]
                ELSE /\ fetched' = [fetched EXCEPT ![p] = (k :> r.val) @@ @]
                     /\ pc' = [pc EXCEPT ![p] = IF idx[p] = Len(Kinds)
                                                THEN "store_data" ELSE "update"]
                     /\ idx' = [idx EXCEPT ![p] = IF idx[p] = Len(Kinds)
                                                  THEN 0 ELSE @ + 1]
    /\ UNCHANGED <<input, output, API_KEY, threads, WEATHER_CACHE, now, req, got, started, solo,
                   nreq>>

\* A variant of update_cache that writes the timestamp first and the data
\* second; C21 tells it from StoreData.
StoreData_timestamp_first(p) ==
    /\ pc[p] = "store_data"
    /\ WEATHER_CACHE' = [WEATHER_CACHE EXCEPT !.timestamp = now]
    /\ pc' = [pc EXCEPT ![p] = "store_ts"]
    /\ UNCHANGED <<input, output, API_KEY, threads, now, idx, req, fetched, got,
                   started, calls, solo, nreq, faults>>

\* A variant that zeroes the timestamp while the new data is written; C19
\* tells it from StoreData.
StoreData_invalidating(p) ==
    /\ pc[p] = "store_data"
    /\ WEATHER_CACHE' = [data |-> Snapshot(req[p], fetched[p], now), timestamp |-> 0]
    /\ pc' = [pc EXCEPT ![p] = "store_ts"]
    /\ UNCHANGED <<input, output, API_KEY, threads, now, idx, req, fetched, got,
                   started, calls, solo, nreq, faults>>

\* update_cache: WEATHER_CACHE['data'] = {...}
StoreData(p) ==
    /\ pc[p] = "store_data"
    /\ WEATHER_CACHE' = [WEATHER_CACHE EXCEPT
                            !.data = Snapshot(req[p], fetched[p], now)]
    /\ pc' = [pc EXCEPT ![p] = "store_ts"]
    /\ UNCHANGED <<input, output, API_KEY, threads, now, idx, req, fetched, got, started, calls,
                   solo, nreq, faults>>

\* update_cache: WEATHER_CACHE['timestamp'] = time.time(), and return.
StoreTimestamp(p) ==
    /\ pc[p] = "store_ts"
    /\ WEATHER_CACHE' = [WEATHER_CACHE EXCEPT !.timestamp = now]
    /\ fetched' = [fetched EXCEPT ![p] = Empty]
    /\ pc' = [pc EXCEPT ![p] = "get"]
    /\ idx' = [idx EXCEPT ![p] = 1]
    /\ UNCHANGED <<input, output, API_KEY, threads, now, req, got, started, calls, solo, nreq,
                   faults>>

\* A variant in which the handler calls a fetcher again for as long as the
\* upstream call fails, a failed attempt leaving nothing behind; C23 tells
\* it from HandlerGet.
HandlerGet_retrying(p) ==
    /\ pc[p] = "get"
    /\ \E o \in Answers :
         LET k == Kinds[idx[p]] IN
         \E r \in {Fetcher(k, WEATHER_CACHE, now, o,
                           [req |-> req[p], via |-> "handler"])} :
             IF r.called /\ o # "ok"
             THEN UNCHANGED <<calls, faults, got, pc, idx>>
             ELSE /\ calls' = [calls EXCEPT ![p] = CountCall(@, k, r.called)]
                  /\ faults' = CountFault(r.called, o)
                  /\ got' = [got EXCEPT ![p] =
                               (k :> [rec |-> r.val, from |-> r.from]) @@ @]
                  /\ pc' = [pc EXCEPT ![p] = IF idx[p] = Len(Kinds)
                                             THEN "render" ELSE "get"]
                  /\ idx' = [idx EXCEPT ![p] = IF idx[p] = Len(Kinds)
                                               THEN 0 ELSE @ + 1]
    /\ UNCHANGED <<input, output, API_KEY, threads, WEATHER_CACHE, now, req, fetched,
                   started, solo, nreq>>

\* The handler's own five fetcher calls.  An exception leaving a fetcher
\* would reach the handler's except block: the error page.
HandlerGet(p) ==
    /\ pc[p] = "get"
    /\ \E o \in Answers :
         LET k == Kinds[idx[p]] IN
         \E r \in {Fetcher(k, WEATHER_CACHE, now, o,
                           [req |-> req[p], via |-> "handler"])} :
             /\ calls' = [calls EXCEPT ![p] = CountCall(@, k, r.called)]
             /\ faults' = CountFault(r.called, o)
             /\ IF r.kind = "raise"
                THEN /\ got' = got
                     /\ pc' = [pc EXCEPT ![p] = "error"]
                     /\ idx' = [idx EXCEPT ![p] = 0]
                ELSE /\ got' = [got EXCEPT ![p] =
                                  (k :> [rec |-> r.val, from |-> r.from]) @@ @]
                     /\ pc' = [pc EXCEPT ![p] = IF idx[p] = Len(Kinds)
                                                THEN "render" ELSE "get"]
                     /\ idx' = [idx EXCEPT ![p] = IF idx[p] = Len(Kinds)
                                                  THEN 0 ELSE @ + 1]
    /\ UNCHANGED <<input, output, API_KEY, threads, WEATHER_CACHE, now, req, fetched, started, solo,
                   nreq>>

\* A variant in which the handler drops the cache as it returns; C8 tells it
\* from Respond.
Respond_clearing(p) ==
    /\ pc[p] \in {"render", "error"}
    /\ WEATHER_CACHE' = [data |-> None, timestamp |-> 0]
    /\ pc' = [pc EXCEPT ![p] = "idle"]
    /\ req' = [req EXCEPT ![p] = 0]
    /\ got' = [got EXCEPT ![p] = Empty]
    /\ calls' = [calls EXCEPT ![p] = NoCalls]
    /\ started' = [started EXCEPT ![p] = NotStarted]
    /\ solo' = [solo EXCEPT ![p] = TRUE]
    /\ UNCHANGED <<input, output, API_KEY, threads, now, idx, fetched, nreq, faults>>

\* wind_dir, cache_time and the page, or the error page, are returned; the
\* worker is free again.
Respond(p) ==
    /\ pc[p] \in {"render", "error"}
    /\ pc' = [pc EXCEPT ![p] = "idle"]
    /\ req' = [req EXCEPT ![p] = 0]
    /\ got' = [got EXCEPT ![p] = Empty]
    /\ calls' = [calls EXCEPT ![p] = NoCalls]
    /\ started' = [started EXCEPT ![p] = NotStarted]
    /\ solo' = [solo EXCEPT ![p] = TRUE]
    /\ UNCHANGED <<input, output, API_KEY, threads, WEATHER_CACHE, now, idx, fetched, nreq, faults>>

Next ==
    \/ Tick
    \/ \E p \in Procs : Arrive(p)
    \/ \E p \in Procs : HandlerCheck(p)
    \/ \E p \in Procs : UpdateFetch(p)
    \/ \E p \in Procs : StoreData(p)
    \/ \E p \in Procs : StoreTimestamp(p)
    \/ \E p \in Procs : HandlerGet(p)
    \/ \E p \in Procs : Respond(p)

Spec == Init /\ [][Next]_vars

\* The steps of worker p's handler.  Each is a statement of a running thread
\* or an upstream call, which returns or fails within its timeout=10: once
\* enabled it stays enabled until p takes it, and p takes it eventually.
\* Nothing obliges the clock to move or a request to arrive.
HandlerStep(p) ==
    \/ HandlerCheck(p)
    \/ UpdateFetch(p)
    \/ StoreData(p)
    \/ StoreTimestamp(p)
    \/ HandlerGet(p)
    \/ Respond(p)

LiveSpec == Init /\ [][Next]_vars /\ \A p \in Procs : WF_vars(HandlerStep(p))

\* ------------------------------------------- single calls of a function
\* The second specification runs one call of one function on arguments drawn
\* from bounded sets; the server's variables stay as Init leaves them.
server == <<API_KEY, threads, WEATHER_CACHE, now, pc, idx, req, fetched, got, started,
            calls, solo, nreq, faults>>

\* All sequences over S of length 0..n.
Lists(S, n) == UNION {[1..m -> S] : m \in 0..n}

FeedDay == 20031
\* Entries of data['list'] for get_rainfall_data: before, at and after the
\* clock readings below, with a positive, a zero and no rain field.
RainItems ==
    { [dt_txt |-> [day |-> FeedDay, sec |-> 32400], rain |-> [h3 |-> 5]],
      [dt_txt |-> [day |-> FeedDay, sec |-> 43200], rain |-> [h3 |-> 7]],
      [dt_txt |-> [day |-> FeedDay, sec |-> 54000], rain |-> [h3 |-> 0]],
      [dt_txt |-> [day |-> FeedDay, sec |-> 64800]],
      [dt_txt |-> [day |-> FeedDay, sec |-> 75600], rain |-> [h3 |-> 3]],
      [dt_txt |-> [day |-> FeedDay, sec |-> 54000], rain |-> [h3 |-> 9]] }

\* datetime.now(tokyo_tz) at the call.
RainClock == {FeedDay * DAY_SECONDS + 43200, FeedDay * DAY_SECONDS + 54000}

RainfallInputs ==
    {[fn |-> "get_rainfall_data", list |-> l, now |-> t] :
        l \in Lists(RainItems, MaxListLen), t \in RainClock}

\* The entry of the forecast feed at 3-hour slot j after midnight of FeedDay.
FeedEntry(j) ==
    [dt_txt  |-> [day |-> FeedDay + j \div 8, sec |-> (j % 8) * 10800],
     main    |-> [temp |-> j],
     weather |-> <<[description |-> <<"light rain", "clear sky",
                                      "scattered clouds">>[(j % 3) + 1],
                    icon        |-> <<"10d", "01n">>[(j % 2) + 1]]>>]

\* n entries from slot `start` on, one every `stride` slots, as the provider
\* sends them or in reverse.
Feed(start, n, stride, reversed) ==
    [i \in 1..n |-> FeedEntry(start + stride * ((IF reversed THEN n + 1 - i ELSE i) - 1))]

FiveDayInputs ==
    {[fn |-> "get_5day_forecast", list |-> Feed(start, n, stride, reversed)] :
        start \in 0..7, n \in 0..MaxEntries, stride \in {1, 3, 8}, reversed \in BOOLEAN}

\* An entry of data['list'] without one of the fields the loop reads when
\* the entry opens a new date.
Damages == {"temp", "description", "icon"}
Damage(item, what) ==
    CASE what = "temp" ->
           [item EXCEPT !.main = [humidity |-> 50]]
      [] what = "description" ->
           [item EXCEPT !.weather = <<[icon |-> item.weather[1].icon]>>]
      [] what = "icon" ->
           [item EXCEPT !.weather = <<[description |-> item.weather[1].description]>>]

\* The feeds above with the entry at one position damaged.
DamagedFiveDayInputs ==
    {[fn   |-> "get_5day_forecast",
      list |-> [Feed(c.start, c.n, c.stride, c.reversed) EXCEPT
                   ![c.at] = Damage(@, c.what)]] :
        c \in {d \in [start : 0..7, n : 1..MaxEntries, stride : {1, 3, 8},
                      reversed : BOOLEAN, at : 1..MaxEntries, what : Damages] :
                  d.at <= d.n}}

WindInputs == {[fn |-> "wind_direction", degrees |-> d] : d \in 0..MaxDegrees}

AqiSamples == -1..8
AirQualityInputs == {[fn |-> "get_air_quality", aqi |-> a] : a \in AqiSamples}

\* A response of requests.get: a status code and a body.
StatusCodes == {200, 401, 500}
DocumentedBody(endpoint) ==
    CASE endpoint = "forecast"      -> ForecastJson
      [] endpoint = "weather"       -> WeatherJson
      [] endpoint = "air_pollution" -> AirPollutionJson
ResponseInputs ==
    {[fn |-> "fetcher", kind |-> k, now |-> t,
      response |-> [status_code |-> c,
                    body |-> IF documented THEN DocumentedBody(EndpointOf(k))
                             ELSE ErrorJson]] :
        k \in KindSet, t \in ClockPoints, c \in StatusCodes, documented \in BOOLEAN}

\* response.json(): the parsed body, whatever the status code.
ResponseJson(response) == response.body

Returned(r) == [tag |-> r.kind, val |-> r.val]

FunctionInit ==
    /\ API_KEY = "set"
    /\ threads = 1
    /\ faults = 0
    /\ WEATHER_CACHE = [data |-> None, timestamp |-> 0]
    /\ now = StartTime
    /\ pc = [p \in Procs |-> "idle"]
    /\ idx = [p \in Procs |-> 0]
    /\ req = [p \in Procs |-> 0]
    /\ fetched = [p \in Procs |-> Empty]
    /\ got = [p \in Procs |-> Empty]
    /\ started = [p \in Procs |-> NotStarted]
    /\ calls = [p \in Procs |-> NoCalls]
    /\ solo = [p \in Procs |-> TRUE]
    /\ nreq = 0
    /\ input \in RainfallInputs \cup FiveDayInputs \cup DamagedFiveDayInputs
                  \cup WindInputs
                  \cup AirQualityInputs \cup ResponseInputs
    /\ output = NoOutput

\* get_rainfall_data on an invalid cache, the provider answering input.list.
CallRainfall ==
    /\ input.fn = "get_rainfall_data"
    /\ output = NoOutput
    /\ output' = Returned(Catch(rainfall_build([list |-> input.list], input.now),
                                rainfall_fallback(input.now)))
    /\ UNCHANGED <<server, input>>

\* get_5day_forecast on an invalid cache, the provider answering input.list.
CallFiveDay ==
    /\ input.fn = "get_5day_forecast"
    /\ output = NoOutput
    /\ output' = Returned(Catch(five_day_build([list |-> input.list]),
                                five_day_fallback))
    /\ UNCHANGED <<server, input>>

\* wind_direction(input.degrees); an index outside the table is an IndexError.
CallWindDirection ==
    /\ input.fn = "wind_direction"
    /\ output = NoOutput
    /\ output' = Returned(wind_direction(input.degrees))
    /\ UNCHANGED <<server, input>>

\* get_air_quality on an invalid cache, the provider reporting index input.aqi.
CallAirQuality ==
    /\ input.fn = "get_air_quality"
    /\ output = NoOutput
    /\ output' = Returned(Catch(
                      air_quality_build(
                          [list |-> <<[main |-> [aqi |-> input.aqi],
                                       components |-> AirPollutionJson.list[1].components]>>]),
                      air_quality_fallback))
    /\ UNCHANGED <<server, input>>

\* Fetcher input.kind on an invalid cache, requests.get returning
\* input.response.
CallFetcher ==
    /\ input.fn = "fetcher"
    /\ output = NoOutput
    /\ output' = Returned(Catch(BuildBody(input.kind, ResponseJson(input.response),
                                          input.now),
                                Fallback(input.kind, input.now)))
    /\ UNCHANGED <<server, input>>

FunctionNext ==
    \/ CallRainfall
    \/ CallFiveDay
    \/ CallWindDirection
    \/ CallAirQuality
    \/ CallFetcher

FunctionSpec == FunctionInit /\ [][FunctionNext]_vars

\* ================================================================= claims
Populated == WEATHER_CACHE.data # None
UpdateCacheOf(r) == [req |-> r, via |-> "update_cache"]

\* C1: the five sub-records a dashboard request hands to the renderer all come
\* from one refresh cycle: all five were fetched by the same update_cache
\* invocation, or all five were read from the same cached snapshot.  (Five
\* records all fetched by the handler's own calls are let pass as well: what
\* the formula forbids is a mix.)
C1_OneRefreshCycle ==
    \A p \in Procs :
        pc[p] = "render" =>
            \/ \E sid \in Requests : \A k \in KindSet : got[p][k].from = sid
            \/ \E r \in Requests : \A k \in KindSet : got[p][k].rec.by = UpdateCacheOf(r)
            \/ \A k \in KindSet : got[p][k].from = 0

\* C2: a dashboard request that starts while the cache is populated and
\* younger than the TTL makes no upstream call and returns exactly the five
\* sub-records the cache held when it started.  (That snapshot's timestamp was
\* written before the request arrived, so it is not later than the start
\* reading of the clock; no part of the formula rests on it.)
C2_ValidCacheServedWithoutCalls ==
    \A p \in Procs :
        (pc[p] # "idle" /\ started[p].valid) =>
            /\ calls[p] = NoCalls
            /\ \A k \in DOMAIN got[p] : got[p][k].from = started[p].sid
            /\ pc[p] \notin {"update", "store_data", "store_ts", "error"}

\* C3: a dashboard request that starts while the cache is Empty or expired,
\* no other request running, has made exactly one upstream call per endpoint
\* type (current conditions, forecast, air pollution) when it returns.
C3_OneCallPerEndpoint ==
    \A p \in Procs :
        (pc[p] = "render" /\ solo[p] /\ ~started[p].valid) =>
            \A e \in Endpoints : calls[p][e] = 1

\* C4: a dashboard request that started at t0 while the cache was Empty or
\* expired finds, when it returns, the cache Populated with a timestamp >= t0,
\* and the five sub-records it returns are those of one stored snapshot.
\* (Five records all fetched by the handler's own calls during the request are
\* let pass as well.)
C4_RefreshedSnapshotReturned ==
    \A p \in Procs :
        (pc[p] = "render" /\ ~started[p].valid) =>
            /\ Populated
            /\ WEATHER_CACHE.timestamp >= started[p].at
            /\ \/ \E sid \in Requests : \A k \in KindSet : got[p][k].from = sid
               \/ \A k \in KindSet : got[p][k].from = 0

\* C5: the handler skips update_cache exactly when the cache is Populated and
\* now - timestamp < 3600, and at every moment is_cache_valid() is that same
\* truth value: false for the Empty cache, false at an age of exactly 3600.
C5_IsCacheValid ==
    [][ /\ is_cache_valid(WEATHER_CACHE, now)
            <=> (WEATHER_CACHE.data # None /\ now - WEATHER_CACHE.timestamp < 3600)
        /\ \A p \in Procs :
              (pc[p] = "check" /\ pc'[p] # "check") =>
                  /\ pc'[p] = "get"
                       <=> (WEATHER_CACHE.data # None
                            /\ now - WEATHER_CACHE.timestamp < 3600)
                  /\ pc'[p] = "update"
                       <=> (WEATHER_CACHE.data = None
                            \/ now - WEATHER_CACHE.timestamp >= 3600)
      ]_vars

\* A request served one at a time found a Populated cache aged exactly 3600
\* seconds and went to refresh it.
C5_Witness_ExactlyExpired ==
    /\ threads = 1
    /\ pc[1] = "update" /\ idx[1] = 1
    /\ Populated
    /\ now - WEATHER_CACHE.timestamp = 3600

\* C6: the data slot is None or a snapshot with all five sub-records
\* (rainfall_data, current_weather, five_day_forecast, air_quality,
\* sun_moon), and update_cache reaches the write of the slot holding the
\* results of all five fetcher calls of that invocation; this under every
\* upstream failure and every interleaving of requests.
C6_NoPartialSnapshot ==
    /\ \/ WEATHER_CACHE.data = None
       \/ DOMAIN WEATHER_CACHE.data.recs =
             {"rainfall_data", "current_weather", "five_day_forecast",
              "air_quality", "sun_moon"}
    /\ \A p \in Procs :
          /\ pc[p] = "store_data" =>
                /\ DOMAIN fetched[p] = {"rainfall_data", "current_weather",
                                        "five_day_forecast", "air_quality", "sun_moon"}
                /\ idx[p] = 0
          /\ pc[p] = "update" => Cardinality(DOMAIN fetched[p]) = idx[p] - 1

\* Two refreshes interleave, every upstream call of both failing: one has
\* written the slot, the other is about to.
C6_Witness_FullSnapshotOfFallbacks ==
    /\ pc[1] = "store_ts" /\ pc[2] = "store_data"
    /\ WEATHER_CACHE.data # None
    /\ WEATHER_CACHE.data.sid = req[1]
    /\ \A k \in KindSet : WEATHER_CACHE.data.recs[k].failed

\* The fallback record the fetcher of kind k documents.
DocumentedFallback(k, body) ==
    CASE k = "rainfall_data" ->
            /\ body.current_rainfall_last_hour_mm = 0
            /\ body.forecast = <<>>
            /\ DOMAIN body = {"current_rainfall_last_hour_mm", "current_timestamp",
                              "forecast"}
      [] k = "current_weather" ->
            body = [temp |-> "N/A", humidity |-> "N/A", wind_speed |-> "N/A",
                    wind_deg |-> 0, weather |-> "Unknown",
                    description |-> "Weather unavailable", icon |-> "01d"]
      [] k = "five_day_forecast" -> body = <<>>
      [] k = "air_quality" ->
            body = [aqi |-> 0, level |-> "Unknown", advice |-> "No air quality data",
                    color |-> "#9E9E9E", components |-> {}]
      [] k = "sun_moon" ->
            body = [sunrise |-> "N/A", sunset |-> "N/A", moon |-> "new"]

\* The record built from the well-formed response of the sample upstream.
BuiltFromResponse(k, body) ==
    CASE k = "rainfall_data" ->
            /\ body.current_rainfall_last_hour_mm = 12
            /\ Len(body.forecast) = 2
      [] k = "current_weather" ->
            /\ body.temp = "18.4" /\ body.humidity = "62"
            /\ body.wind_speed = "3.6" /\ body.wind_deg = 90
            /\ body.weather = "Clouds" /\ body.icon = "03d"
      [] k = "five_day_forecast" ->
            /\ Len(body) = 2
            /\ body[1].temp = "17.2" /\ body[2].temp = "14.9"
      [] k = "air_quality" -> body.aqi = 3 /\ body.level = "Moderate"
      [] k = "sun_moon" -> body.sunrise # "N/A" /\ body.sunset # "N/A"

FailedKinds(recs) == {k \in DOMAIN recs : recs[k].failed}

\* C7: whatever the upstream answers (network error, malformed JSON, a body
\* without the fields), each of the five fetchers returns, raising nothing,
\* and on a failure returns its documented fallback record; so no request
\* ends in the handler's except block, every record of a stored snapshot
\* whose upstream call failed is that fallback and every other one is built
\* from its response, and a refresh in which exactly one call failed stores
\* a full snapshot with that one fallback and four built records.
\* (A fetcher that finds the cache unusable reads nothing of the state but
\* the clock: its answers are looked at for each clock reading, before the
\* first request.)
C7_FallbackNeverRaises ==
    /\ nreq = 0 => \A k \in KindSet : \A o \in Outcomes :
          LET r == Fetcher(k, [data |-> None, timestamp |-> 0], now, o, "anyone")
          IN  /\ r.kind = "return"
              /\ o # "ok" => DocumentedFallback(k, r.val.body)
              /\ o = "ok" => BuiltFromResponse(k, r.val.body)
    /\ \A p \in Procs : pc[p] # "error"
    /\ WEATHER_CACHE.data # None =>
          /\ DOMAIN WEATHER_CACHE.data.recs = KindSet
          /\ \A k \in KindSet :
                LET rec == WEATHER_CACHE.data.recs[k]
                IN  IF rec.failed THEN DocumentedFallback(k, rec.body)
                    ELSE BuiltFromResponse(k, rec.body)
    /\ \A p \in Procs :
          (pc[p] = "store_data" /\ Cardinality(FailedKinds(fetched[p])) = 1) =>
              ENABLED (/\ StoreData(p)
                       /\ DOMAIN WEATHER_CACHE'.data.recs = KindSet
                       /\ Cardinality(FailedKinds(WEATHER_CACHE'.data.recs)) = 1)

\* A refresh in which exactly one upstream call failed has stored its
\* snapshot: that fetcher's fallback next to four built records.
C7_Witness_OneFallbackFourBuilt ==
    \E p \in Procs :
        /\ pc[p] = "store_ts"
        /\ WEATHER_CACHE.data # None
        /\ WEATHER_CACHE.data.sid = req[p]
        /\ \E k \in KindSet :
              /\ FailedKinds(WEATHER_CACHE.data.recs) = {k}
              /\ DocumentedFallback(k, WEATHER_CACHE.data.recs[k].body)
              /\ \A j \in KindSet \ {k} :
                    BuiltFromResponse(j, WEATHER_CACHE.data.recs[j].body)

\* C8: the data slot and the timestamp change only in the two writes of
\* update_cache; every other step (the check, each fetcher call, also one
\* that finds the cache invalid and fetches afresh, the return) leaves both
\* as they are.  A Populated cache stays Populated.
C8_OnlyUpdateCacheWrites ==
    [][ /\ WEATHER_CACHE'.data # WEATHER_CACHE.data =>
              /\ WEATHER_CACHE'.timestamp = WEATHER_CACHE.timestamp
              /\ \E p \in Procs : pc[p] = "store_data" /\ pc'[p] = "store_ts"
        /\ WEATHER_CACHE'.timestamp # WEATHER_CACHE.timestamp =>
              /\ WEATHER_CACHE'.data = WEATHER_CACHE.data
              /\ \E p \in Procs : pc[p] = "store_ts" /\ pc'[p] = "get"
        /\ WEATHER_CACHE.data # None => WEATHER_CACHE'.data # None
      ]_vars

\* A request found the cache expired at one of its getters and returns
\* freshly fetched records, and the cache still holds the earlier
\* snapshot under its earlier timestamp.
C8_Witness_FreshFetchLeavesCache ==
    /\ threads = 1
    /\ pc[1] = "render"
    /\ started[1].valid
    /\ \E k \in KindSet : got[1][k].from = 0
    /\ WEATHER_CACHE.data # None
    /\ WEATHER_CACHE.data.sid = started[1].sid
    /\ now - WEATHER_CACHE.timestamp >= 3600

\* C9: nothing holds a request back at the validity check: a worker that
\* finds the cache Empty or expired enters update_cache also while another
\* worker is inside update_cache, so two refreshes, each with its full burst
\* of upstream calls, are in flight at once.
C9_NoCriticalSection ==
    \A p \in Procs :
        (/\ pc[p] = "check"
         /\ ~(WEATHER_CACHE.data # None /\ now - WEATHER_CACHE.timestamp < 3600)
         /\ \E q \in Procs \ {p} : pc[q] \in {"update", "store_data", "store_ts"})
        => ENABLED (HandlerCheck(p) /\ pc'[p] = "update")

\* Two refreshes in flight: both workers have made all five upstream calls
\* of update_cache and neither has written the cache yet.
C9_Witness_TwoRefreshesInFlight ==
    /\ pc[1] = "store_data" /\ pc[2] = "store_data"
    /\ req[1] # req[2]
    /\ \A p \in Procs :
          calls[p] = [forecast |-> 2, weather |-> 2, air_pollution |-> 1]

\* C10: every snapshot in the cache holds five sub-records that the
\* update_cache invocation which stored it fetched from upstream itself; none
\* is taken from a snapshot of another refresh.
C10_IndependentSnapshots ==
    WEATHER_CACHE.data # None =>
        \A k \in KindSet :
            WEATHER_CACHE.data.recs[k].by =
                [req |-> WEATHER_CACHE.data.sid, via |-> "update_cache"]

\* ------------------------------------------------ claims on single calls
\* rain.3h of an entry, an absent rain field counting as 0.
RainOf(item) == IF "rain" \in DOMAIN item THEN item.rain.h3 ELSE 0

\* The positions of the entries strictly after t with rain.3h > 0.
FutureRainy(list, t) ==
    {i \in 1..Len(list) :
        list[i].dt_txt.day * 86400 + list[i].dt_txt.sec > t /\ RainOf(list[i]) > 0}

\* The n-th smallest member of a set of positions.
Nth(S, n) == CHOOSE i \in S : Cardinality({j \in S : j < i}) = n - 1

\* C11: the forecast get_rainfall_data returns is the first 4 of the entries
\* of the upstream list that lie strictly after now and have rain.3h > 0
\* (no rain field counting as 0), in the order of the upstream list; an
\* entry at exactly now is left out.
C11_RainfallForecastFilter ==
    (input.fn = "get_rainfall_data" /\ output # NoOutput) =>
        LET Q == FutureRainy(input.list, input.now)
            f == output.val.forecast
        IN  /\ output.tag = "return"
            /\ Len(f) = IF Cardinality(Q) < 4 THEN Cardinality(Q) ELSE 4
            /\ \A n \in 1..Len(f) :
                  LET item == input.list[Nth(Q, n)]
                  IN  /\ f[n].rainfall_3h_mm = RainOf(item)
                      /\ f[n].timestamp = TokyoStamp(Instant(item.dt_txt))

\* Five rainy entries in the future, out of chronological order: four are
\* returned, a later one before an earlier one.
C11_Witness_TruncatedUnsorted ==
    /\ input.fn = "get_rainfall_data"
    /\ output # NoOutput
    /\ Cardinality(FutureRainy(input.list, input.now)) = 5
    /\ Len(output.val.forecast) = 4
    /\ output.val.forecast[1].timestamp.sec > output.val.forecast[2].timestamp.sec

\* The entry has every field the loop reads when it opens a new date.
Complete(item) ==
    /\ HasKeys(item, {"main", "weather"})
    /\ HasKeys(item.main, {"temp"})
    /\ Len(item.weather) > 0
    /\ HasKeys(item.weather[1], {"description", "icon"})

\* The positions of the entries that are the first of their calendar date.
FirstOfDate(list) ==
    {i \in 1..Len(list) :
        \A j \in 1..(i - 1) : list[j].dt_txt.day # list[i].dt_txt.day}

\* C12: get_5day_forecast returns one entry per distinct calendar date of the
\* upstream list, carrying the temperature, description and icon of the
\* first entry seen for that date, in order of first encounter, the first 5
\* dates only: min(5, number of distinct dates) entries.
C12_FiveDayFirstPerDate ==
    ( /\ input.fn = "get_5day_forecast" /\ output # NoOutput
      /\ \A i \in 1..Len(input.list) : Complete(input.list[i]) ) =>
        LET F == FirstOfDate(input.list)
            dates == {input.list[i].dt_txt.day : i \in 1..Len(input.list)}
            out == output.val
        IN  /\ output.tag = "return"
            /\ Cardinality(F) = Cardinality(dates)
            /\ Len(out) = IF Cardinality(dates) < 5 THEN Cardinality(dates) ELSE 5
            /\ \A n \in 1..Len(out) :
                  LET item == input.list[Nth(F, n)]
                  IN  /\ out[n].temp = item.main.temp
                      /\ out[n].description = Capitalize(item.weather[1].description)
                      /\ out[n].icon = item.weather[1].icon
                      /\ out[n].date = DateLabel(item.dt_txt.day)

\* Eight entries spanning three calendar dates give three entries.
C12_Witness_EightEntriesThreeDates ==
    /\ input.fn = "get_5day_forecast"
    /\ output # NoOutput
    /\ Len(input.list) = 8
    /\ Cardinality({input.list[i].dt_txt.day : i \in 1..8}) = 3
    /\ Len(output.val) = 3
    /\ \E i \in 2..8 : input.list[i].dt_txt.day = input.list[1].dt_txt.day
    /\ output.val[1].temp = input.list[1].main.temp

\* The label wind_direction returned for d degrees, if that was the call.
WindLabelIs(d, arrow, point) ==
    (input.fn = "wind_direction" /\ input.degrees = d /\ output # NoOutput) =>
        output = [tag |-> "return", val |-> [arrow |-> arrow, point |-> point]]

\* C13 as stated: wind_direction maps 0, 44, 45, 90 and 360 degrees to
\* "↓ N", "↓ N", "↙ NE", "← E" and "↓ N".
C13_WindDirectionExamples ==
    /\ WindLabelIs(0, "down", "N")
    /\ WindLabelIs(44, "down", "N")
    /\ WindLabelIs(45, "down-left", "NE")
    /\ WindLabelIs(90, "left", "E")
    /\ WindLabelIs(360, "down", "N")

\* C13, amended: wind_direction maps 0, 44, 45, 90 and 360 degrees to
\* "↓ N", "↙ NE", "↙ NE", "← E" and "↓ N" (44/45 rounds to 1).
C13_WindDirectionExamplesAmended ==
    /\ WindLabelIs(0, "down", "N")
    /\ WindLabelIs(44, "down-left", "NE")
    /\ WindLabelIs(45, "down-left", "NE")
    /\ WindLabelIs(90, "left", "E")
    /\ WindLabelIs(360, "down", "N")

\* wind_direction(44) has returned "↙ NE".
C13_Witness_FortyFour ==
    /\ input.fn = "wind_direction"
    /\ input.degrees = 44
    /\ output = [tag |-> "return", val |-> [arrow |-> "down-left", point |-> "NE"]]

\* The compass points in table order.
CompassPoints == <<"N", "NE", "E", "SE", "S", "SW", "W", "NW">>

\* round(d / 45) for an integer d >= 0: d / 45 is never halfway between two
\* integers, so it is the integer nearest to it.
NearestSector(d) == (2 * d + 45) \div 90

\* C14: for every integer d in 0..720, wind_direction(d) is the entry at
\* index round(d / 45) mod 8 of the table N, NE, E, SE, S, SW, W, NW: the
\* reduction of d modulo 360 changes nothing and the index is within 0..7
\* (no IndexError).
C14_WindDirectionSector ==
    (input.fn = "wind_direction" /\ output # NoOutput /\ input.degrees \in 0..720) =>
        /\ output.tag = "return"
        /\ NearestSector(input.degrees) % 8 \in 0..7
        /\ output.val.point = CompassPoints[(NearestSector(input.degrees) % 8) + 1]
        /\ output.val = Directions[(NearestSector(input.degrees) % 8) + 1]
        /\ 45 * NearestSector(input.degrees) - input.degrees \in -22..22

\* wind_direction(700): 700 / 45 rounds to 16, which wraps to index 0, as
\* does 340 / 45, which rounds to 8.
C14_Witness_SecondTurn ==
    /\ input.fn = "wind_direction"
    /\ input.degrees = 700
    /\ output # NoOutput
    /\ output.val.point = "N"

\* The table of levels, by index 1..5.
LevelTable ==
    << <<"Good", "Air quality is satisfactory.", "#4CAF50">>,
       <<"Fair", "Moderate quality.", "#8BC34A">>,
       <<"Moderate", "Sensitive groups affected.", "#FFC107">>,
       <<"Poor", "Unhealthy for some.", "#FF9800">>,
       <<"Very Poor", "Health alert.", "#F44336">> >>

\* C15: for every integer index the provider reports, get_air_quality's
\* (level, advice, color) is the table entry for an index in 1..5 (3 gives
\* "Moderate" and "#FFC107") and ("Unknown", "No data", "#9E9E9E") for any
\* other index, 0 and 7 among them; aqi is the reported index itself.
C15_AqiTable ==
    (input.fn = "get_air_quality" /\ output # NoOutput) =>
        LET rec == output.val
            triple == <<rec.level, rec.advice, rec.color>>
        IN  /\ output.tag = "return"
            /\ rec.aqi = input.aqi
            /\ input.aqi \in 1..5 => triple = LevelTable[input.aqi]
            /\ input.aqi \notin 1..5 => triple = <<"Unknown", "No data", "#9E9E9E">>
            /\ input.aqi = 3 => rec.level = "Moderate" /\ rec.color = "#FFC107"

\* The provider reported index 7: the sentinel, and aqi = 7.
C15_Witness_OutOfRange ==
    /\ input.fn = "get_air_quality"
    /\ input.aqi = 7
    /\ output # NoOutput
    /\ output.val.aqi = 7
    /\ output.val.level = "Unknown"
    /\ output.val.color = "#9E9E9E"

\* C16: the current rainfall get_rainfall_data returns is rain.3h of the
\* first entry of the upstream list as sent (0 without a rain field), be
\* that entry past or future, kept by the forecast filter or not; 0 for an
\* empty list.
C16_CurrentRainfallFirstEntry ==
    (input.fn = "get_rainfall_data" /\ output # NoOutput) =>
        /\ output.tag = "return"
        /\ output.val.current_rainfall_last_hour_mm =
              IF Len(input.list) = 0 THEN 0 ELSE RainOf(input.list[1])

\* The first entry lies in the past with rain.3h = 5 and is followed by
\* entries the filter keeps: 5 is the current rainfall and no entry of the
\* forecast.
C16_Witness_PastFirstEntry ==
    /\ input.fn = "get_rainfall_data"
    /\ output # NoOutput
    /\ Len(input.list) >= 2
    /\ Instant(input.list[1].dt_txt) < input.now
    /\ RainOf(input.list[1]) = 5
    /\ RainOf(input.list[Len(input.list)]) # 5
    /\ output.val.current_rainfall_last_hour_mm = 5
    /\ Len(output.val.forecast) >= 1
    /\ \A n \in 1..Len(output.val.forecast) :
          output.val.forecast[n].rainfall_3h_mm # 5

\* C17: a response with a status code outside 200..299 makes the fetcher
\* return its fallback record, never a record built from the body, also
\* when the body is well-formed and has every field the fetcher reads.
C17_ErrorStatusGivesFallback ==
    (/\ input.fn = "fetcher"
     /\ output # NoOutput
     /\ input.response.status_code \notin 200..299)
    => /\ output.tag = "return"
       /\ DocumentedFallback(input.kind, output.val)

\* ------------------------------------------ further claims on the server
\* The upstream calls worker p has made for its request.
CallsMade(p) == calls[p].forecast + calls[p].weather + calls[p].air_pollution

\* C18: a fetcher invocation issues at most one upstream request and is not
\* repeated when it returns a fallback: a request has made at most as many
\* upstream calls as it has made fetcher invocations (five in update_cache,
\* five in the handler), and exactly one per invocation in a refresh no other
\* request interferes with, failures or not.
C18_SingleAttempt ==
    \A p \in Procs :
        /\ pc[p] = "update" => CallsMade(p) <= idx[p] - 1
        /\ (pc[p] = "update" /\ threads = 1) => CallsMade(p) = idx[p] - 1
        /\ pc[p] \in {"store_data", "store_ts"} => CallsMade(p) <= 5
        /\ pc[p] = "get" => CallsMade(p) <= 5 + idx[p] - 1
        /\ pc[p] = "render" => CallsMade(p) <= 10
        /\ (pc[p] \in {"store_data", "store_ts"} /\ threads = 1) =>
              calls[p] = [forecast |-> 2, weather |-> 2, air_pollution |-> 1]

\* With the API key set, a refresh in which an upstream call failed went on
\* to the end, and the handler returns that fallback from the cache: five
\* upstream calls in all.
C18_Witness_FallbackNotRetried ==
    /\ API_KEY = "set"
    /\ threads = 1
    /\ pc[1] = "render"
    /\ ~started[1].valid
    /\ CallsMade(1) = 5
    /\ \E k \in KindSet : got[1][k].rec.failed /\ got[1][k].from = req[1]

C20_FallbackServedFromCache ==
    \A p \in Procs :
        (/\ pc[p] # "idle"
         /\ started[p].valid
         /\ WEATHER_CACHE.data # None
         /\ WEATHER_CACHE.data.sid = started[p].sid
         /\ FailedKinds(WEATHER_CACHE.data.recs) # {})
        => /\ calls[p] = NoCalls
           /\ pc[p] \notin {"update", "store_data", "store_ts", "error"}
           /\ \A k \in DOMAIN got[p] :
                 /\ got[p][k].from = started[p].sid
                 /\ got[p][k].rec = WEATHER_CACHE.data.recs[k]

\* Worker p is inside update_cache: fetching, or at one of its two writes.
InUpdateCache(p) == pc[p] \in {"update", "store_data", "store_ts"}

\* C21: update_cache writes WEATHER_CACHE['data'] first and
\* WEATHER_CACHE['timestamp'] second.  update_cache starts only when
\* is_cache_valid() is false; with the clock at 3600 or more, from then until
\* its own timestamp write no step makes is_cache_valid() true unless another
\* refresh writes its timestamp, so is_cache_valid() is false between the two
\* writes, and a fetcher called in that state answers from upstream, not
\* from the cache.
C21_InvalidBetweenWrites ==
    [][\A p \in Procs :
         /\ (pc[p] = "store_data" /\ pc'[p] # "store_data")
              => /\ pc'[p] = "store_ts"
                 /\ WEATHER_CACHE'.data # None
                 /\ WEATHER_CACHE'.data.sid = req[p]
                 /\ WEATHER_CACHE'.timestamp = WEATHER_CACHE.timestamp
         /\ (pc[p] = "store_ts" /\ pc'[p] # "store_ts")
              => /\ WEATHER_CACHE'.data = WEATHER_CACHE.data
                 /\ WEATHER_CACHE'.timestamp = now
         /\ (pc[p] = "check" /\ pc'[p] = "update")
              => ~is_cache_valid(WEATHER_CACHE, now)
         /\ ( /\ InUpdateCache(p) /\ InUpdateCache(p)'
              /\ now >= CACHE_DURATION
              /\ ~is_cache_valid(WEATHER_CACHE, now)
              /\ \A q \in Procs \ {p} : ~(pc[q] = "store_ts" /\ pc'[q] # "store_ts") )
              => ~is_cache_valid(WEATHER_CACHE', now')
         /\ (pc[p] = "store_ts" /\ ~is_cache_valid(WEATHER_CACHE, now))
              => \A q \in Procs \ {p} :
                    /\ \A k \in DOMAIN got'[q] \ DOMAIN got[q] : got'[q][k].from = 0
                    /\ (pc[q] = "check" /\ pc'[q] # "check") => pc'[q] = "update"
      ]_vars

\* Worker p stands between its two writes on a cache that was Empty, its
\* snapshot in the data slot under the timestamp 0, while another request is
\* at the handler's check or inside its own update_cache.
C21_Witness_ReaderBetweenWrites ==
    \E p \in Procs : \E q \in Procs \ {p} :
        /\ pc[p] = "store_ts"
        /\ pc[q] \in {"check", "update"}
        /\ WEATHER_CACHE.data # None
        /\ WEATHER_CACHE.data.sid = req[p]
        /\ WEATHER_CACHE.timestamp = 0
        /\ now >= CACHE_DURATION
        /\ ~is_cache_valid(WEATHER_CACHE, now)

\* C22: get_5day_forecast is all-or-nothing.  If an entry that is the first
\* of its calendar date lacks main.temp, weather[0].description or
\* weather[0].icon, the result is the empty list, also when that date is the
\* 6th or a later one; an incomplete entry of a date already seen changes
\* nothing: the result is built from the first entries of the first 5
\* dates.
C22_FiveDayAllOrNothing ==
    (input.fn = "get_5day_forecast" /\ output # NoOutput) =>
        LET F == FirstOfDate(input.list)
            out == output.val
        IN  /\ output.tag = "return"
            /\ (\E i \in F : ~Complete(input.list[i])) => out = <<>>
            /\ (\A i \in F : Complete(input.list[i])) =>
                  /\ Len(out) = Min(FORECAST_DAYS_CAP, Cardinality(F))
                  /\ \A n \in 1..Len(out) :
                        LET item == input.list[Nth(F, n)]
                        IN  /\ out[n].temp = item.main.temp
                            /\ out[n].description =
                                  Capitalize(item.weather[1].description)
                            /\ out[n].icon = item.weather[1].icon
                            /\ out[n].date = DateLabel(item.dt_txt.day)

\* The only incomplete entry opens the 6th date or a later one, five complete
\* dates come before it, and the result is the empty list.
C22_Witness_SixthDateIncomplete ==
    /\ input.fn = "get_5day_forecast"
    /\ output # NoOutput
    /\ LET F == FirstOfDate(input.list)
       IN  /\ Cardinality(F) > FORECAST_DAYS_CAP
           /\ \E i \in F :
                 /\ ~Complete(input.list[i])
                 /\ Cardinality({j \in F : j < i}) >= FORECAST_DAYS_CAP
                 /\ \A j \in 1..Len(input.list) : j # i => Complete(input.list[j])
    /\ output.val = <<>>

\* C23: every request for the dashboard is answered.  With every upstream
\* call returning or failing and every thread running on, no worker stays
\* inside the handler for ever: whenever it holds a request it comes back to
\* idle, which it does only by returning the page or the error page, under
\* every combination of fetcher failures and every interleaving with the
\* other requests.
C23_EveryRequestAnswered ==
    \A p \in Procs : []<>(pc[p] = "idle")

\* A request has all five records, failed ones among them, and is about to
\* return the page while another request is still inside its handler.
C23_Witness_AnsweredAmongFailures ==
    \E p \in Procs : \E q \in Procs \ {p} :
        /\ pc[p] = "render"
        /\ DOMAIN got[p] = KindSet
        /\ \E k \in KindSet : got[p][k].rec.failed
        /\ pc[q] \notin {"idle", "render", "error"}

====
